---- MODULE Spec2Model ----
(***************************************************************************)
(* A model of the fountain transport of handsomecheung/cube: the sender    *)
(* (src/src/encode.rs, prepare_chunks), the packet wire format, and the    *)
(* three receivers (src/src/decode.rs: decode_from_gif, decode_from_video, *)
(* decode_from_images with reconstruct_raptorq).                           *)
(*                                                                         *)
(* The chunk.rs under src/ is an older revision (JSON header); encode.rs   *)
(* and decode.rs use the 11-byte binary header (ChunkHeader {version,      *)
(* total, index, packet_size}, HEADER_SIZE, pack_data, unpack_data).       *)
(* Those definitions are modelled from the specification (sections 3, 4.1, *)
(* 4.4) and are marked so where they are defined.                          *)
(***************************************************************************)
EXTENDS Integers, Sequences, FiniteSets, TLC

(***************************************************************************)
(* Bounds of the model                                                     *)
(***************************************************************************)
\* longest packet body drawn for the header codec checks
MaxBodyLen == 2
\* packets (of this encode, counted once each, of the foreign encode, of another
\* version) a receiver reads from one container before the stream ends; repeated
\* and undecodable frames come on top
MaxFrames == 6
\* longest file content drawn for the framing and chunk-list checks
MaxDataLen == 2
\* foreign-session frames the channel may inject into one stream
MaxForeign == 1
\* the foreign frames injected are among the first MaxForeignEsi of that encode
MaxForeignEsi == 2
\* packets of another version the channel may inject into one stream
MaxV2 == 1

(***************************************************************************)
(* Bytes and byte strings                                                  *)
(***************************************************************************)
Byte == 0..255

None == [none |-> TRUE]
Some(v) == [some |-> v]

Zeros(n) == [i \in 1..n |-> 0]

RECURSIVE SumSeq(_)
SumSeq(s) == IF s = <<>> THEN 0 ELSE Head(s) + SumSeq(Tail(s))

RECURSIVE RemoveNul(_)
RemoveNul(s) ==
    IF s = <<>> THEN <<>>
    ELSE IF Head(s) = 0 THEN RemoveNul(Tail(s))
    ELSE <<Head(s)>> \o RemoveNul(Tail(s))

\* Vec::truncate: keeps the first n elements, a no-op when n >= len
Truncate(s, n) == IF n >= Len(s) THEN s ELSE SubSeq(s, 1, n)

Drop(s, n) == IF n >= Len(s) THEN <<>> ELSE SubSeq(s, n + 1, Len(s))

CeilDiv(a, b) == (a + b - 1) \div b

Max(a, b) == IF a >= b THEN a ELSE b
Min(a, b) == IF a <= b THEN a ELSE b

\* u32::to_be_bytes / u16::to_be_bytes
BE32(n) == << (n \div 16777216) % 256, (n \div 65536) % 256, (n \div 256) % 256, n % 256 >>
BE16(n) == << (n \div 256) % 256, n % 256 >>
\* u32::from_be_bytes / u16::from_be_bytes
FromBE32(b) == b[1] * 16777216 + b[2] * 65536 + b[3] * 256 + b[4]
FromBE16(b) == b[1] * 256 + b[2]

(***************************************************************************)
(* Packet wire format: Chunk, ChunkHeader, to_bytes, from_bytes            *)
(***************************************************************************)
HEADER_SIZE == 11

ChunkHeader(version, total, index, packet_size) ==
    [version |-> version, total |-> total, index |-> index, packet_size |-> packet_size]

Chunk(header, data) == [header |-> header, data |-> data]

\* header(11 bytes, big-endian) || body
to_bytes(c) ==
    <<c.header.version>> \o BE32(c.header.total) \o BE32(c.header.index)
        \o BE16(c.header.packet_size) \o c.data

ParseOk(c) == [ok |-> TRUE, err |-> "", ver |-> 1, consumed |-> HEADER_SIZE, chunk |-> c]
ParseErr(e, v) == [ok |-> FALSE, err |-> e, ver |-> v, consumed |-> 0, chunk |-> None]

\* the mutant checks the length before the version, so a short packet of another
\* version is reported HeaderTooShort
from_bytes_LengthFirst(bytes) ==
    IF Len(bytes) < HEADER_SIZE THEN ParseErr("HeaderTooShort", 0)
    ELSE IF bytes[1] # 1 THEN ParseErr("UnsupportedVersion", bytes[1])
    ELSE ParseOk(Chunk(ChunkHeader(bytes[1], FromBE32(SubSeq(bytes, 2, 5)),
                                   FromBE32(SubSeq(bytes, 6, 9)),
                                   FromBE16(SubSeq(bytes, 10, 11))),
                       Drop(bytes, HEADER_SIZE)))

\* the mutant reads the packet size little-endian
from_bytes_LittleEndianSize(bytes) ==
    IF Len(bytes) < 1 THEN ParseErr("HeaderTooShort", 0)
    ELSE IF bytes[1] # 1 THEN ParseErr("UnsupportedVersion", bytes[1])
    ELSE IF Len(bytes) < HEADER_SIZE THEN ParseErr("HeaderTooShort", 0)
    ELSE ParseOk(Chunk(ChunkHeader(bytes[1], FromBE32(SubSeq(bytes, 2, 5)),
                                   FromBE32(SubSeq(bytes, 6, 9)),
                                   bytes[11] * 256 + bytes[10]),
                       Drop(bytes, HEADER_SIZE)))

from_bytes(bytes) ==
    IF Len(bytes) < 1 THEN ParseErr("HeaderTooShort", 0)
    ELSE IF bytes[1] # 1 THEN ParseErr("UnsupportedVersion", bytes[1])
    ELSE IF Len(bytes) < HEADER_SIZE THEN ParseErr("HeaderTooShort", 0)
    ELSE ParseOk(Chunk(ChunkHeader(bytes[1], FromBE32(SubSeq(bytes, 2, 5)),
                                   FromBE32(SubSeq(bytes, 6, 9)),
                                   FromBE16(SubSeq(bytes, 10, 11))),
                       Drop(bytes, HEADER_SIZE)))

(***************************************************************************)
(* Envelope text codec: base-64, standard alphabet, padded.  A character   *)
(* is its index in the alphabet (0..63), 64 is '=', 65 is a character      *)
(* outside the alphabet.                                                   *)
(***************************************************************************)
B64Pad == 64
B64Bad == 65

\* three bytes make four characters; the last group is padded
BASE64_encode(b) ==
    LET n == Len(b)
        at(i) == IF i <= n THEN b[i] ELSE 0
        char(g, k) ==
            IF k = 0 THEN at(3 * g + 1) \div 4
            ELSE IF k = 1 THEN (at(3 * g + 1) % 4) * 16 + at(3 * g + 2) \div 16
            ELSE IF k = 2 THEN
                IF 3 * g + 2 > n THEN B64Pad
                ELSE (at(3 * g + 2) % 16) * 4 + at(3 * g + 3) \div 64
            ELSE IF 3 * g + 3 > n THEN B64Pad ELSE at(3 * g + 3) % 64
    IN [j \in 1..(4 * CeilDiv(n, 3)) |-> char((j - 1) \div 4, (j - 1) % 4)]

DecodeOk(b) == [ok |-> TRUE, bytes |-> b]
DecodeErr == [ok |-> FALSE, bytes |-> <<>>]

\* one group of four characters; the last group may carry padding
B64Group(g, last) ==
    IF g[1] > 63 \/ g[2] > 63 THEN DecodeErr
    ELSE IF g[3] = B64Pad /\ g[4] = B64Pad THEN
        IF last /\ g[2] % 16 = 0 THEN DecodeOk(<< g[1] * 4 + g[2] \div 16 >>) ELSE DecodeErr
    ELSE IF g[3] > 63 THEN DecodeErr
    ELSE IF g[4] = B64Pad THEN
        IF last /\ g[3] % 4 = 0
        THEN DecodeOk(<< g[1] * 4 + g[2] \div 16, (g[2] % 16) * 16 + g[3] \div 4 >>)
        ELSE DecodeErr
    ELSE IF g[4] > 63 THEN DecodeErr
    ELSE DecodeOk(<< g[1] * 4 + g[2] \div 16, (g[2] % 16) * 16 + g[3] \div 4,
                     (g[3] % 4) * 64 + g[4] >>)

RECURSIVE BASE64_decode(_)
BASE64_decode(t) ==
    IF Len(t) = 0 THEN DecodeOk(<<>>)
    ELSE IF Len(t) < 4 THEN DecodeErr
    ELSE LET g == B64Group(SubSeq(t, 1, 4), Len(t) = 4)
             r == BASE64_decode(Drop(t, 4))
         IN IF g.ok /\ r.ok THEN DecodeOk(g.bytes \o r.bytes) ELSE DecodeErr

(***************************************************************************)
(* Framing and compression                                                 *)
(***************************************************************************)
Ok(v) == [ok |-> TRUE, err |-> "", val |-> v]
Err(e) == [ok |-> FALSE, err |-> e, val |-> None]

\* first 8 bytes of SHA-256, as a function of the content that, like the digest in
\* practice, has no two contents of the model with the same value: byte 1 carries
\* the length, byte i + 1 the content byte i and the bytes 7, 14, ... places after it
RECURSIVE Mix(_, _)
Mix(data, j) == IF j > Len(data) THEN 0 ELSE data[j] + Mix(data, j + 7)

calculate_checksum(data) ==
    [i \in 1..8 |->
        IF i = 1 THEN (37 * Len(data) + 11) % 256
        ELSE IF i - 1 <= Len(data) THEN (73 * Mix(data, i - 1) + 41 * i) % 256
        ELSE (41 * i) % 256]

\* CHK(8) || NAME without 0x00 || 0x00 || B
pack_data(data, filename) ==
    calculate_checksum(data) \o RemoveNul(filename) \o <<0>> \o data

\* index of the first 0x00 at position > from (1-based), 0 when there is none
RECURSIVE FindNul(_, _)
FindNul(p, from) ==
    IF from > Len(p) THEN 0
    ELSE IF p[from] = 0 THEN from
    ELSE FindNul(p, from + 1)

\* bytes below 128 are one-byte UTF-8; a lone byte >= 128 is not valid UTF-8
Utf8Valid(s) == \A i \in 1..Len(s) : s[i] < 128

unpack_data(p) ==
    IF Len(p) < 10 THEN Err("PackedTooShort")
    ELSE LET sep == FindNul(p, 9) IN
         IF sep = 0 THEN Err("MissingNameTerminator")
         ELSE LET name == SubSeq(p, 9, sep - 1)
                  content == Drop(p, sep)
              IN IF ~Utf8Valid(name) THEN Err("MalformedName")
                 ELSE IF calculate_checksum(content) # SubSeq(p, 1, 8)
                      THEN Err("ChecksumMismatch")
                 ELSE Ok([name |-> name, data |-> content])

\* zlib stream: a header byte, the deflate body (stored), a trailing checksum
ZlibHeader == 120
Adler(d) == (1 + SumSeq(d)) % 251

compress(d) == <<ZlibHeader>> \o d \o <<Adler(d)>>

decompress(c) ==
    IF Len(c) < 2 THEN Err("CompressionError")
    ELSE LET body == SubSeq(c, 2, Len(c) - 1) IN
         IF c[1] # ZlibHeader \/ c[Len(c)] # Adler(body) THEN Err("CompressionError")
         ELSE Ok(body)

(***************************************************************************)
(* Erasure codec (raptorq): encoder                                        *)
(***************************************************************************)
\* number of source symbols of an object of t bytes
SourceSymbols(t, ps) == CeilDiv(t, ps)

\* source symbol i (0-based): a slice of the object, the last one zero-padded
SourceSymbol(obj, ps, i) ==
    LET s == SubSeq(obj, i * ps + 1, IF (i + 1) * ps <= Len(obj) THEN (i + 1) * ps ELSE Len(obj))
    IN s \o Zeros(ps - Len(s))

RECURSIVE RepairByte(_, _, _, _, _)
RepairByte(obj, ps, esi, b, i) ==
    IF i >= SourceSymbols(Len(obj), ps) THEN 0
    ELSE (SourceSymbol(obj, ps, i)[b] + 1) * (esi + i + 1) + RepairByte(obj, ps, esi, b, i + 1)

\* repair symbol: a combination of all source symbols that depends on the ESI
RepairSymbol(obj, ps, esi) ==
    [b \in 1..ps |-> (esi + RepairByte(obj, ps, esi, b, 0)) % 256]

Symbol(obj, ps, esi) ==
    IF esi < SourceSymbols(Len(obj), ps) THEN SourceSymbol(obj, ps, esi)
    ELSE RepairSymbol(obj, ps, esi)

EncodingPacket(esi, data) == [esi |-> esi, data |-> data]

\* PayloadId (source block number, 24-bit ESI) || symbol
serialize(p) == <<0, (p.esi \div 65536) % 256, (p.esi \div 256) % 256, p.esi % 256>> \o p.data

\* panics (slice out of range) on fewer than 4 bytes; callers test Len first
deserialize(bytes) ==
    EncodingPacket(bytes[2] * 65536 + bytes[3] * 256 + bytes[4], Drop(bytes, 4))

\* Encoder::get_encoded_packets(repair_packets_per_block): every source packet,
\* then that many repair packets, ESIs ascending from 0
get_encoded_packets(obj, ps, repair) ==
    [i \in 1..(SourceSymbols(Len(obj), ps) + repair) |->
        EncodingPacket(i - 1, Symbol(obj, ps, i - 1))]

(***************************************************************************)
(* The files and sender configurations the model draws from                *)
(***************************************************************************)
File(data, name) == [data |-> data, name |-> name]

Files ==
    { File(<<>>, <<97>>),            \* empty file "a"
      File(<<0, 65>>, <<97, 0>>),    \* content with a 0x00, name with a 0x00
      File(<<66, 0>>, <<98>>) }      \* same length as the second, other content

\* the files the sender of the model is given
SenderFiles == { File(<<>>, <<97>>), File(<<0, 65>>, <<97, 0>>) }

\* redundancy_factor is a float in the code: 1.5 is 3/2, 2.0 is 2/1
Config(chunk_size, default_size, min_size, reduction_step, num, den, fit_limit) ==
    [chunk_size |-> chunk_size, default_size |-> default_size, min_size |-> min_size,
     reduction_step |-> reduction_step, red_num |-> num, red_den |-> den,
     fit_limit |-> fit_limit, qr_cap |-> None]

\* the longest text QrCode::with_error_correction_level(data, EcLevel::M) builds
\* a code for (version 40, level M, 8-bit bytes)
QR_CAPACITY == 2331

\* the configuration of a channel whose fit predicate builds the QR code itself
\* and passes the failure on (fits_in_terminal)
TerminalConfig(c) == [c EXCEPT !.qr_cap = Some(QR_CAPACITY)]

\* chunk_size is an Option<usize>; fit_limit is the longest text the channel
\* carries (the fit predicate of the sizing loop); qr_cap, when set, is the text
\* length beyond which the fit predicate returns Err instead of a boolean
Configs ==
    { Config(Some(25), 25, 13, 6, 3, 2, 32),    \* one retreat 25 -> 19, packet_size 8
      Config(None, 25, 13, 6, 2, 1, 40),        \* default size, packet_size 14
      Config(Some(25), 25, 13, 6, 3, 2, 20) }   \* never fits

\* the file of the independent encode whose frames may be mixed into a stream of f:
\* of another transfer length for the first and the third file, of the same
\* transfer length and other content for the second
other_file(f) ==
    IF f = File(<<>>, <<97>>) THEN File(<<0, 65>>, <<97, 0>>)
    ELSE IF f = File(<<0, 65>>, <<97, 0>>) THEN File(<<66, 0>>, <<98>>)
    ELSE File(<<>>, <<97>>)

\* every object an encoder of this model can have produced
Universe == { compress(pack_data(f.data, f.name)) : f \in Files }

(***************************************************************************)
(* Erasure codec (raptorq): decoder.  The contract of section 4.3: packets *)
(* in any order; with all source symbols the object is their               *)
(* concatenation; with k or more symbols of one object the decoder may     *)
(* recover it and with k + RQ_OVERHEAD it does.  Symbols that belong to no *)
(* one object (another session, another symbol size) leave the library's   *)
(* outcome open: pending, a wrong block, or a panic.                       *)
(***************************************************************************)
RQ_OVERHEAD == 2

Decoder_new(t, ps) == [T |-> t, ps |-> ps, rx |-> {}]

Pending == [kind |-> "pending", block |-> <<>>]
Panic == [kind |-> "panic", block |-> <<>>]
Block(b) == [kind |-> "block", block |-> b]

RECURSIVE ConcatSource(_, _, _)
ConcatSource(rx, k, i) ==
    IF i >= k THEN <<>>
    ELSE (CHOOSE p \in rx : p.esi = i).data \o ConcatSource(rx, k, i + 1)

\* what decode() can return once the packets of rx have been presented
DecodeOutcomes(dec) ==
    LET k == SourceSymbols(dec.T, dec.ps)
        esis == { p.esi : p \in dec.rx }
        sized == \A p \in dec.rx : Len(p.data) = dec.ps
        uniq == Cardinality(esis) = Cardinality(dec.rx)
        cands == { o \in Universe :
                     /\ Len(o) = dec.T
                     /\ \A p \in dec.rx : p.data = Symbol(o, dec.ps, p.esi) }
        wild == IF sized THEN {} ELSE {Panic}
    IN IF Cardinality(esis) < k \/ k = 0 THEN {Pending} \cup wild
       ELSE IF sized /\ uniq /\ (0..(k - 1)) \subseteq esis
            THEN {Block(ConcatSource(dec.rx, k, 0))}
       ELSE IF cands # {}
            THEN { Block(o \o Zeros(k * dec.ps - Len(o))) : o \in cands }
                 \cup (IF Cardinality(esis) >= k + RQ_OVERHEAD THEN {} ELSE {Pending})
       ELSE {Pending, Block(Zeros(k * dec.ps))} \cup wild

\* EncodingPacket::deserialize(&chunk.data), then Decoder::decode(packet): the
\* decoder after the call and what the call returned
Decoder_decode(dec, data) ==
    IF Len(data) < 4 THEN { [dec |-> dec, out |-> Panic] }
    ELSE LET d == [dec EXCEPT !.rx = @ \cup {deserialize(data)}]
         IN { [dec |-> d, out |-> o] : o \in DecodeOutcomes(d) }

(***************************************************************************)
(* State                                                                   *)
(***************************************************************************)
VARIABLES
    \* sender (prepare_chunks)
    file,             \* the input file: data and filename
    cfg,              \* chunk_size, default_size, min_size, reduction_step, ...
    spc,              \* "idle", "loop" (in the sizing loop), "ok", "err"
    compressed,       \* compress(pack_data(data, filename))
    current_size,     \* the loop's current_size
    out_chunks,       \* the Vec<Chunk> returned on success
    send_err,         \* the Err prepare_chunks returned, None if none
    break_at,         \* what left the loop: "none", the break at "packet_size" or
                      \* "fit", or "fit_error" (the ? of the fit predicate)
    \* sender (process_chunks_as_qr_images)
    fixed_version,    \* the loop's fixed_version: None or Some(version)
    qr_pos,           \* how many chunks the loop has gone through
    qr_frames,        \* per image handed to the processor: the hint passed to
                      \* generate_qr_image and the version it returned
    qr_res,           \* None while the loop runs or has not started, then its result
    \* channel
    foreign,          \* the chunks of another, independent encode
    delivered,        \* which packets of out_chunks the receiver has read so far
    nforeign,         \* how many foreign-session frames it has read
    nv2,              \* how many packets of version 2 it has read
    \* receiver
    rcv,              \* "none", "gif", "video", "images"
    rpc,              \* "idle", "scan", "reconstruct", "done"
    decoder_raptorq,  \* Option<Decoder>
    chunks,           \* HashMap<u32, Chunk>, keyed by header.index
    vec,              \* reconstruct_raptorq: the chunks not yet visited
    num_chunks,       \* decode_from_images: chunks.len() before reconstruction
    result,           \* None while running, then Ok(DecodeResult) or Err
    output,           \* the file written by fs::write, None if none
    \* receiver history
    fed,              \* the chunks passed to Decoder::decode
    nfed,             \* the number of calls of Decoder::decode
    ninit,            \* the number of calls of Decoder::new
    first_accepted,   \* the first chunk Chunk::from_bytes accepted
    first_by_esi,     \* per header.index, the first accepted chunk carrying it
    trunc_len,        \* the length the returned block was truncated to, None if none
    \* header codec harness
    hpc,              \* "off", "chunk", "wire" (serialised), "cut", "parsed"
    hsrc,             \* a chunk to serialise
    hin,              \* bytes to parse
    hres,             \* the result of Chunk::from_bytes(hin)
    \* framing and chunk-list harness
    fpc,              \* "off", "args", "packed", "split", "unpacked", "merged", "panicked",
                      \* and "packed_tampered", "split_tampered", ..., after a change
    fargs,            \* the arguments: data, filename, payload_size
    fmid,             \* the packed blob, or the Vec<Chunk> handed to merge_chunks
    fres              \* the result of unpack_data(fmid) or merge_chunks(fmid)

renderVars == <<fixed_version, qr_pos, qr_frames, qr_res>>
senderVars == <<file, cfg, spc, compressed, current_size, out_chunks, send_err, break_at,
                renderVars>>
channelVars == <<foreign, delivered, nforeign, nv2>>
receiverVars == <<rcv, rpc, decoder_raptorq, chunks, vec, num_chunks, result, output>>
historyVars == <<fed, nfed, ninit, first_accepted, first_by_esi, trunc_len>>
headerVars == <<hpc, hsrc, hin, hres>>
framingVars == <<fpc, fargs, fmid, fres>>
vars == <<senderVars, channelVars, receiverVars, historyVars, headerVars, framingVars>>

(***************************************************************************)
(* Sender: prepare_chunks                                                  *)
(***************************************************************************)
\* the mutant leaves the size as the cast returns it
packet_size_of_NoRounding(current) ==
    (IF current > HEADER_SIZE THEN current - HEADER_SIZE ELSE 0) % 65536

\* (current_size.saturating_sub(HEADER_SIZE)) as u16, rounded down to even
packet_size_of(current) ==
    LET raw == (IF current > HEADER_SIZE THEN current - HEADER_SIZE ELSE 0) % 65536
    IN raw - (raw % 2)

\* the mutant retreats without the floor of min_size
reduce_NoFloor(current, c) ==
    IF current > c.reduction_step THEN current - c.reduction_step ELSE 0

\* the mutant keeps the size it was given
reduce_NoProgress(current, c) == Max(current, c.min_size)

\* current_size.saturating_sub(reduction_step).max(min_size)
reduce(current, c) ==
    Max(IF current > c.reduction_step THEN current - c.reduction_step ELSE 0, c.min_size)

\* the envelope text of a chunk, as handed to the QR renderer
envelope(chunk) == BASE64_encode(to_bytes(chunk))

\* fit_check_fn: Ok(whether the channel carries the text), or the Err of a
\* predicate that could not build the QR code
fit_check_fn(c, text) ==
    IF c.qr_cap # None /\ Len(text) > c.qr_cap.some THEN Err("QrError")
    ELSE Ok(Len(text) <= c.fit_limit)

source_packets_of(t, ps) == CeilDiv(t, ps)

\* (source_packets * redundancy_factor).ceil().max(source_packets + 2)
total_packets_of(t, ps, c) ==
    Max(CeilDiv(source_packets_of(t, ps) * c.red_num, c.red_den), source_packets_of(t, ps) + 2)

\* the mutant writes the number of packets in the field of the transfer length
make_chunks_TotalIsCount(obj, ps, total_packets) ==
    LET pk == get_encoded_packets(obj, ps, total_packets)
    IN [i \in 1..Len(pk) |->
          Chunk(ChunkHeader(1, Len(pk), i - 1, ps), serialize(pk[i]))]

\* the mutant numbers the packets from 1
make_chunks_OneBased(obj, ps, total_packets) ==
    LET pk == get_encoded_packets(obj, ps, total_packets)
    IN [i \in 1..Len(pk) |->
          Chunk(ChunkHeader(1, Len(obj), i, ps), serialize(pk[i]))]

\* the chunks built from the packets of get_encoded_packets(total_packets)
make_chunks(obj, ps, total_packets) ==
    LET pk == get_encoded_packets(obj, ps, total_packets)
    IN [i \in 1..Len(pk) |->
          Chunk(ChunkHeader(1, Len(obj), i - 1, ps), serialize(pk[i]))]

\* the error prepare_chunks returns after either break of the loop
SizingError == Err("DataTooLarge")

\* the mutant returns the probe when it does not fit at the minimum size
sizing_iteration_KeepProbe(current, c, obj) ==
    LET ps == packet_size_of(current) IN
    IF ps < 4 THEN
        IF current <= c.min_size
        THEN [kind |-> "err", current |-> current, chunks |-> <<>>, at |-> "packet_size"]
        ELSE [kind |-> "loop", current |-> reduce(current, c), chunks |-> <<>>, at |-> "none"]
    ELSE LET first_packet == get_encoded_packets(obj, ps, 1)[1]
             probe == Chunk(ChunkHeader(1, Len(obj), 0, ps), serialize(first_packet))
             fit == fit_check_fn(c, envelope(probe))
         IN IF ~fit.ok
            THEN [kind |-> "err", current |-> current, chunks |-> <<>>, at |-> "fit_error"]
            ELSE IF fit.val
            THEN [kind |-> "ok", current |-> current,
                  chunks |-> make_chunks(obj, ps, total_packets_of(Len(obj), ps, c)),
                  at |-> "none"]
            ELSE IF current > c.min_size
                 THEN [kind |-> "loop", current |-> reduce(current, c), chunks |-> <<>>,
                       at |-> "none"]
                 ELSE [kind |-> "err", current |-> current, chunks |-> <<probe>>,
                       at |-> "fit"]

\* one iteration of the sizing loop
sizing_iteration(current, c, obj) ==
    LET ps == packet_size_of(current) IN
    IF ps < 4 THEN
        IF current <= c.min_size
        THEN [kind |-> "err", current |-> current, chunks |-> <<>>, at |-> "packet_size"]
        ELSE [kind |-> "loop", current |-> reduce(current, c), chunks |-> <<>>, at |-> "none"]
    ELSE LET first_packet == get_encoded_packets(obj, ps, 1)[1]
             probe == Chunk(ChunkHeader(1, Len(obj), 0, ps), serialize(first_packet))
             fit == fit_check_fn(c, envelope(probe))
         IN IF ~fit.ok
            THEN [kind |-> "err", current |-> current, chunks |-> <<>>, at |-> "fit_error"]
            ELSE IF fit.val
            THEN [kind |-> "ok", current |-> current,
                  chunks |-> make_chunks(obj, ps, total_packets_of(Len(obj), ps, c)),
                  at |-> "none"]
            ELSE IF current > c.min_size
                 THEN [kind |-> "loop", current |-> reduce(current, c), chunks |-> <<>>,
                       at |-> "none"]
                 ELSE [kind |-> "err", current |-> current, chunks |-> <<>>, at |-> "fit"]

\* prepare_chunks up to the loop: read, pack, compress, pick the first size
Encode(f, c) ==
    /\ spc = "idle"
    /\ file' = f
    /\ cfg' = c
    /\ compressed' = compress(pack_data(f.data, f.name))
    /\ current_size' = IF c.chunk_size = None THEN c.default_size ELSE c.chunk_size.some
    /\ spc' = "loop"
    /\ UNCHANGED <<out_chunks, send_err, break_at, renderVars, channelVars, receiverVars,
                   historyVars, headerVars, framingVars>>

SizingStep ==
    /\ spc = "loop"
    /\ LET it == sizing_iteration(current_size, cfg, compressed) IN
       /\ spc' = it.kind
       /\ current_size' = it.current
       /\ out_chunks' = it.chunks
       /\ break_at' = it.at
       \* the ? of the fit predicate returns its error; after the loop
       \* prepare_chunks returns the one sizing error it has
       /\ send_err' = IF it.kind # "err" THEN None
                      ELSE IF it.at = "fit_error" THEN Some(Err("QrError"))
                      ELSE Some(SizingError)
    /\ UNCHANGED <<file, cfg, compressed, renderVars, channelVars, receiverVars, historyVars,
                   headerVars, framingVars>>

(***************************************************************************)
(* Sender: process_chunks_as_qr_images, the loop that renders the chunks   *)
(* of a container (images of a directory, frames of a GIF)                 *)
(***************************************************************************)
\* the longest text a code of version 1..40 carries at level M when all of it is
\* encoded as 8-bit bytes, and when all of it is encoded as digits
QR_BYTE_CAPACITY ==
    << 14, 26, 42, 62, 84, 106, 122, 152, 180, 213,
       251, 287, 331, 362, 412, 450, 504, 560, 624, 666,
       711, 779, 857, 911, 997, 1059, 1125, 1190, 1264, 1370,
       1452, 1538, 1628, 1722, 1809, 1911, 1989, 2099, 2213, 2331 >>

QR_NUMERIC_CAPACITY ==
    << 34, 63, 101, 149, 202, 255, 293, 365, 432, 513,
       604, 691, 796, 871, 991, 1082, 1212, 1346, 1500, 1600,
       1708, 1872, 2059, 2188, 2395, 2544, 2701, 2857, 3035, 3289,
       3486, 3693, 3909, 4134, 4343, 4588, 4775, 5039, 5313, 5596 >>

\* the smallest version whose capacity holds n characters, one past the last
\* version if none does
MinVersion(capacity, n) ==
    IF \E v \in DOMAIN capacity : capacity[v] >= n
    THEN CHOOSE v \in DOMAIN capacity :
            /\ capacity[v] >= n
            /\ \A w \in DOMAIN capacity : capacity[w] >= n => v <= w
    ELSE Len(capacity) + 1

\* generate_qr_image(data, specific_version, _): the results the call can have.
\* The QR library splits the text into numeric, alphanumeric and byte segments by
\* its content, so the version a text needs lies between the one for its length
\* in digits and the one for its length in bytes; any of them may be the answer.
\* Without a hint the code gets the version the text needs; with a hint it gets
\* the hinted version, or the call fails when the text needs a larger one.
generate_qr_image(data, specific_version) ==
    LET lo == MinVersion(QR_NUMERIC_CAPACITY, Len(data))
        hi == MinVersion(QR_BYTE_CAPACITY, Len(data))
    IN IF specific_version = None
       THEN { Ok(v) : v \in (lo..hi) \cap DOMAIN QR_BYTE_CAPACITY }
                \cup (IF hi \notin DOMAIN QR_BYTE_CAPACITY THEN { Err("QrError") } ELSE {})
       ELSE (IF specific_version.some >= lo THEN { Ok(specific_version.some) } ELSE {})
                \cup (IF specific_version.some < hi THEN { Err("QrError") } ELSE {})

\* the mutant renders every chunk without a hint
render_iteration_NoHint(fixed, chunk) ==
    { IF ~r.ok THEN [res |-> Some(r), fixed |-> fixed, frame |-> None]
      ELSE [res |-> None,
            fixed |-> IF fixed = None THEN Some(r.val) ELSE fixed,
            frame |-> Some([hint |-> None, version |-> r.val])] :
        r \in generate_qr_image(envelope(chunk), None) }

\* one iteration of the loop up to the call of the processor: the text of the
\* chunk is rendered with fixed_version as the hint, the call's error is returned
\* by ?, and the version of the first image becomes fixed_version
render_iteration(fixed, chunk) ==
    { IF ~r.ok THEN [res |-> Some(r), fixed |-> fixed, frame |-> None]
      ELSE [res |-> None,
            fixed |-> IF fixed = None THEN Some(r.val) ELSE fixed,
            frame |-> Some([hint |-> fixed, version |-> r.val])] :
        r \in generate_qr_image(envelope(chunk), fixed) }

\* one iteration, once prepare_chunks_for_img has returned the chunks; the
\* processor (saving the image, appending the GIF frame) may fail, and its error
\* is returned by ? as well
RenderStep ==
    /\ spc = "ok" /\ qr_res = None /\ qr_pos < Len(out_chunks)
    /\ \E it \in render_iteration(fixed_version, out_chunks[qr_pos + 1]),
          processed \in BOOLEAN :
          /\ fixed_version' = it.fixed
          /\ IF it.res # None
             THEN qr_res' = it.res /\ qr_frames' = qr_frames /\ qr_pos' = qr_pos
             ELSE /\ qr_frames' = Append(qr_frames, it.frame.some)
                  /\ qr_pos' = qr_pos + 1
                  /\ qr_res' = IF ~processed THEN Some(Err("IoError")) ELSE None
    /\ UNCHANGED <<file, cfg, spc, compressed, current_size, out_chunks, send_err, break_at,
                   channelVars, receiverVars, historyVars, headerVars, framingVars>>

\* the loop has gone through every chunk: Ok(())
RenderEnd ==
    /\ spc = "ok" /\ qr_res = None /\ qr_pos = Len(out_chunks)
    /\ qr_res' = Some(Ok(None))
    /\ UNCHANGED <<file, cfg, spc, compressed, current_size, out_chunks, send_err, break_at,
                   fixed_version, qr_pos, qr_frames, channelVars, receiverVars, historyVars,
                   headerVars, framingVars>>

(***************************************************************************)
(* Channel: the frames a container can present to a receiver               *)
(***************************************************************************)
FrameId(src, n) == [src |-> src, n |-> n]

\* 1: the frame cannot be read, 2: no QR code in it, 3: text outside the base-64
\* alphabet, 4: empty text, 5: a packet cut below 11 bytes, 6: a packet of version 2
JunkKinds == 1..6

FrameIds ==
    { FrameId("A", i) : i \in 1..Len(out_chunks) }
        \cup { FrameId("B", j) : j \in 1..Min(Len(foreign), MaxForeignEsi) }
        \cup { FrameId("J", j) : j \in JunkKinds }

Frame(img, qr, text) == [img |-> img, qr |-> qr, text |-> text]

FrameOf(id) ==
    IF id.src = "A" THEN Frame(TRUE, TRUE, envelope(out_chunks[id.n]))
    ELSE IF id.src = "B" THEN Frame(TRUE, TRUE, envelope(foreign[id.n]))
    ELSE IF id.n = 1 THEN Frame(FALSE, FALSE, <<>>)
    ELSE IF id.n = 2 THEN Frame(TRUE, FALSE, <<>>)
    ELSE IF id.n = 3 THEN Frame(TRUE, TRUE, <<B64Bad, 0, 0, 0>>)
    ELSE IF id.n = 4 THEN Frame(TRUE, TRUE, <<>>)
    ELSE IF id.n = 5 THEN Frame(TRUE, TRUE, BASE64_encode(SubSeq(to_bytes(out_chunks[1]), 1, 10)))
    ELSE Frame(TRUE, TRUE, BASE64_encode(<<2>> \o Tail(to_bytes(out_chunks[1]))))

\* the number of packets read so far, a repeated packet counted once
ndeliv == Cardinality(delivered) + nforeign + nv2

IsRepeat(id) == id.src = "A" /\ id.n \in delivered
IsV2(id) == id.src = "J" /\ id.n = 6

CanDeliver(id) ==
    /\ ~IsRepeat(id) /\ (id.src # "J" \/ IsV2(id)) => ndeliv < MaxFrames
    /\ id.src = "B" => nforeign < MaxForeign
    /\ IsV2(id) => nv2 < MaxV2

Deliver(id) ==
    /\ delivered' = IF id.src = "A" THEN delivered \cup {id.n} ELSE delivered
    /\ nforeign' = nforeign + (IF id.src = "B" THEN 1 ELSE 0)
    /\ nv2' = nv2 + (IF IsV2(id) THEN 1 ELSE 0)

(***************************************************************************)
(* Receivers                                                               *)
(***************************************************************************)
RcvState ==
    [rpc |-> rpc, decoder_raptorq |-> decoder_raptorq, chunks |-> chunks, vec |-> vec,
     num_chunks |-> num_chunks, result |-> result, output |-> output,
     fed |-> fed, nfed |-> nfed, ninit |-> ninit,
     first_accepted |-> first_accepted, first_by_esi |-> first_by_esi,
     trunc_len |-> trunc_len]

SetRcv(n) ==
    /\ rpc' = n.rpc
    /\ decoder_raptorq' = n.decoder_raptorq
    /\ chunks' = n.chunks
    /\ vec' = n.vec
    /\ num_chunks' = n.num_chunks
    /\ result' = n.result
    /\ output' = n.output
    /\ fed' = n.fed
    /\ nfed' = n.nfed
    /\ ninit' = n.ninit
    /\ first_accepted' = n.first_accepted
    /\ first_by_esi' = n.first_by_esi
    /\ trunc_len' = n.trunc_len

\* HashMap::insert: a present key gets the new value
Insert(m, key, v) == [e \in (DOMAIN m) \cup {key} |-> IF e = key THEN v ELSE m[e]]

Range(m) == { m[e] : e \in DOMAIN m }

\* the function returns: Ok(DecodeResult) after fs::write, or Err
Return(s, res, out) == [s EXCEPT !.rpc = "done", !.result = res, !.output = out]

DecodeResult(name, n) == [original_filename |-> name, num_chunks |-> n]

\* history: a chunk Chunk::from_bytes accepted
Accepted(s, chunk) ==
    [s EXCEPT !.first_accepted = IF @ = None THEN chunk ELSE @,
              !.first_by_esi = IF chunk.header.index \in DOMAIN @ THEN @
                               ELSE Insert(@, chunk.header.index, chunk)]

\* the mutant parses the header whatever its version byte
parse_packet_AnyVersion(text) ==
    LET d == BASE64_decode(text) IN
    IF ~d.ok THEN ParseErr("EnvelopeDecodeFailed", 0)
    ELSE IF Len(d.bytes) < HEADER_SIZE THEN ParseErr("HeaderTooShort", 0)
    ELSE ParseOk(Chunk(ChunkHeader(d.bytes[1], FromBE32(SubSeq(d.bytes, 2, 5)),
                                   FromBE32(SubSeq(d.bytes, 6, 9)),
                                   FromBE16(SubSeq(d.bytes, 10, 11))),
                       Drop(d.bytes, HEADER_SIZE)))

\* BASE64.decode(&qr_string), then Chunk::from_bytes(&chunk_bytes)
parse_packet(text) ==
    LET d == BASE64_decode(text) IN
    IF ~d.ok THEN ParseErr("EnvelopeDecodeFailed", 0) ELSE from_bytes(d.bytes)

\* the mutant accepts only the packet whose index is the number of packets held
is_new_InOrder(m, chunk) == chunk.header.index = Cardinality(DOMAIN m)

\* !chunks.contains_key(&chunk.header.index)
is_new(m, chunk) == chunk.header.index \notin DOMAIN m

\* the mutant truncates the block one byte short of the transfer length
finish_decode_OffByOne(block, total) ==
    LET packed == decompress(Truncate(block, total - 1)) IN
    IF ~packed.ok THEN Err(packed.err) ELSE unpack_data(packed.val)

\* final_data.truncate(total); decompress(&final_data)?; unpack_data(&packed)?
finish_decode(block, total) ==
    LET packed == decompress(Truncate(block, total)) IN
    IF ~packed.ok THEN Err(packed.err) ELSE unpack_data(packed.val)

\* the mutant writes the truncated block before it is decompressed and unpacked
after_decode_WriteFirst(s, chunk, r) ==
    LET s3 == [s EXCEPT !.decoder_raptorq = r.dec, !.fed = @ \cup {chunk}, !.nfed = @ + 1] IN
    IF r.out.kind = "panic" THEN Return(s3, Err("Panic"), None)
    ELSE IF r.out.kind = "pending" THEN s3
    ELSE LET fin == finish_decode(r.out.block, chunk.header.total)
             s4 == [s3 EXCEPT !.trunc_len = Some(chunk.header.total)]
             raw == [name |-> <<>>, data |-> Truncate(r.out.block, chunk.header.total)]
         IN IF fin.ok
            THEN Return(s4, Ok(DecodeResult(fin.val.name, Cardinality(DOMAIN s4.chunks))),
                        Some(fin.val))
            ELSE Return(s4, Err(fin.err), Some(raw))

\* the streaming receivers after dec.decode(packet) returned r.out
after_decode(s, chunk, r) ==
    LET s3 == [s EXCEPT !.decoder_raptorq = r.dec, !.fed = @ \cup {chunk}, !.nfed = @ + 1] IN
    IF r.out.kind = "panic" THEN Return(s3, Err("Panic"), None)
    ELSE IF r.out.kind = "pending" THEN s3
    ELSE LET fin == finish_decode(r.out.block, chunk.header.total)
             s4 == [s3 EXCEPT !.trunc_len = Some(chunk.header.total)]
         IN IF fin.ok
            THEN Return(s4, Ok(DecodeResult(fin.val.name, Cardinality(DOMAIN s4.chunks))),
                        Some(fin.val))
            ELSE Return(s4, Err(fin.err), None)

\* decode_from_gif / decode_from_video: an accepted chunk
streaming_packet(s, chunk) ==
    LET s1 == IF s.decoder_raptorq = None
              THEN [s EXCEPT !.decoder_raptorq =
                                 Decoder_new(chunk.header.total, chunk.header.packet_size),
                             !.ninit = @ + 1]
              ELSE s
    IN IF ~is_new(s1.chunks, chunk) THEN {s1}
       ELSE LET s2 == [s1 EXCEPT !.chunks = Insert(@, chunk.header.index, chunk)]
            IN { after_decode(s2, chunk, r) :
                   r \in Decoder_decode(s2.decoder_raptorq, chunk.data) }

\* one iteration of decode_from_gif's loop over the frames
gif_frame(s, f) ==
    IF ~f.img THEN {Return(s, Err("FrameError"), None)}
    ELSE IF ~f.qr THEN {s}
    ELSE LET r == parse_packet(f.text) IN
         IF ~r.ok THEN {s} ELSE streaming_packet(Accepted(s, r.chunk), r.chunk)

\* one iteration of decode_from_video's loop; a frame that cannot be read ends it
video_frame(s, f) ==
    IF ~f.img THEN {Return(s, Err("InsufficientPackets"), None)}
    ELSE IF ~f.qr THEN {s}
    ELSE LET r == parse_packet(f.text) IN
         IF ~r.ok THEN {s} ELSE streaming_packet(Accepted(s, r.chunk), r.chunk)

\* one iteration of decode_from_images' loop over the PNG files
images_file(s, f) ==
    IF ~f.img \/ ~f.qr THEN s
    ELSE LET r == parse_packet(f.text) IN
         IF ~r.ok THEN s
         ELSE [Accepted(s, r.chunk) EXCEPT !.chunks = Insert(@, r.chunk.header.index, r.chunk)]

\* decode_from_images after its loop, up to the call of reconstruct_raptorq
images_collected(s, nfiles) ==
    IF nfiles = 0 THEN Return(s, Err("NoPngFiles"), None)
    ELSE IF DOMAIN s.chunks = {} THEN Return(s, Err("NoValidPackets"), None)
    ELSE [s EXCEPT !.rpc = "reconstruct", !.num_chunks = Cardinality(DOMAIN s.chunks),
                   !.vec = Range(s.chunks)]

\* reconstruct_raptorq visiting chunk c of the Vec; the first chunk visited is
\* chunks[0], whose header configures the decoder
reconstruct_visit(s, c) ==
    LET s1 == IF s.decoder_raptorq = None
              THEN [s EXCEPT !.decoder_raptorq =
                                 Decoder_new(c.header.total, c.header.packet_size),
                             !.ninit = @ + 1]
              ELSE s
        rest == s.vec \ {c}
    IN { LET s3 == [s1 EXCEPT !.decoder_raptorq = r.dec, !.fed = @ \cup {c},
                              !.nfed = @ + 1, !.vec = rest] IN
         IF r.out.kind = "panic" THEN Return(s3, Err("Panic"), None)
         ELSE IF r.out.kind = "pending"
              THEN IF rest = {} THEN Return(s3, Err("InsufficientPackets"), None) ELSE s3
         ELSE LET fin == finish_decode(r.out.block, s1.decoder_raptorq.T)
                  s4 == [s3 EXCEPT !.trunc_len = Some(s1.decoder_raptorq.T)]
              IN IF fin.ok
                 THEN Return(s4, Ok(DecodeResult(fin.val.name, s4.num_chunks)),
                             Some(fin.val))
                 ELSE Return(s4, Err(fin.err), None)
         : r \in Decoder_decode(s1.decoder_raptorq, c.data) }

\* the receiver is handed a container: the frames of this encode, possibly
\* mixed with frames of an independent encode of file g at the same packet size
StartDecode(kind, g) ==
    /\ spc = "ok"
    /\ rpc = "idle"
    /\ g = other_file(file)
    /\ rcv' = kind
    /\ rpc' = "scan"
    /\ foreign' = LET obj == compress(pack_data(g.data, g.name))
                      ps == out_chunks[1].header.packet_size
                  IN make_chunks(obj, ps, total_packets_of(Len(obj), ps, cfg))
    /\ UNCHANGED <<senderVars, delivered, nforeign, nv2, decoder_raptorq, chunks,
                   vec, num_chunks, result, output, historyVars, headerVars, framingVars>>

GifFrame(id) ==
    /\ rcv = "gif" /\ rpc = "scan"
    /\ CanDeliver(id)
    /\ Deliver(id)
    /\ \E n \in gif_frame(RcvState, FrameOf(id)) : SetRcv(n)
    /\ UNCHANGED <<senderVars, foreign, rcv, headerVars, framingVars>>

\* the frames are exhausted: decode_from_gif after its loop
GifEnd ==
    /\ rcv = "gif" /\ rpc = "scan"
    /\ SetRcv(Return(RcvState,
                     IF DOMAIN chunks = {} THEN Err("NoValidPackets")
                     ELSE Err("InsufficientPackets"),
                     None))
    /\ UNCHANGED <<senderVars, channelVars, rcv, headerVars, framingVars>>

VideoFrame(id) ==
    /\ rcv = "video" /\ rpc = "scan"
    /\ CanDeliver(id)
    /\ Deliver(id)
    /\ \E n \in video_frame(RcvState, FrameOf(id)) : SetRcv(n)
    /\ UNCHANGED <<senderVars, foreign, rcv, headerVars, framingVars>>

\* the frames are exhausted: decode_from_video after its loop
VideoEnd ==
    /\ rcv = "video" /\ rpc = "scan"
    /\ SetRcv(Return(RcvState, Err("InsufficientPackets"), None))
    /\ UNCHANGED <<senderVars, channelVars, rcv, headerVars, framingVars>>

ImagesFile(id) ==
    /\ rcv = "images" /\ rpc = "scan"
    /\ CanDeliver(id)
    /\ Deliver(id)
    /\ SetRcv(images_file(RcvState, FrameOf(id)))
    /\ UNCHANGED <<senderVars, foreign, rcv, headerVars, framingVars>>

\* the directory is listed; it holds no PNG file only if nothing was read from it
ImagesCollected ==
    /\ rcv = "images" /\ rpc = "scan"
    /\ \E nfiles \in {0, 1} :
          /\ nfiles = 0 => ndeliv = 0
          /\ SetRcv(images_collected(RcvState, nfiles))
    /\ UNCHANGED <<senderVars, channelVars, rcv, headerVars, framingVars>>

ReconstructVisit(c) ==
    /\ rcv = "images" /\ rpc = "reconstruct"
    /\ c \in vec
    /\ \E n \in reconstruct_visit(RcvState, c) : SetRcv(n)
    /\ UNCHANGED <<senderVars, channelVars, rcv, headerVars, framingVars>>

(***************************************************************************)
(* Specification of the transport                                          *)
(***************************************************************************)
EmptyMap == [e \in {} |-> None]

Idle ==
    /\ file = None /\ cfg = None /\ spc = "idle" /\ compressed = <<>>
    /\ current_size = 0 /\ out_chunks = <<>> /\ send_err = None /\ break_at = "none"
    /\ fixed_version = None /\ qr_pos = 0 /\ qr_frames = <<>> /\ qr_res = None
    /\ foreign = <<>> /\ delivered = {} /\ nforeign = 0 /\ nv2 = 0
    /\ rcv = "none" /\ rpc = "idle" /\ decoder_raptorq = None /\ chunks = EmptyMap
    /\ vec = {} /\ num_chunks = 0 /\ result = None /\ output = None
    /\ fed = {} /\ nfed = 0 /\ ninit = 0 /\ first_accepted = None
    /\ first_by_esi = EmptyMap /\ trunc_len = None

FramingOff == fpc = "off" /\ fargs = None /\ fmid = <<>> /\ fres = None

Init ==
    /\ Idle
    /\ FramingOff
    /\ hpc = "off" /\ hsrc = None /\ hin = <<>> /\ hres = None

Next ==
    \/ \E f \in SenderFiles, c \in Configs : Encode(f, c)
    \/ SizingStep
    \/ \E kind \in {"gif", "video", "images"}, g \in Files : StartDecode(kind, g)
    \/ \E id \in FrameIds : GifFrame(id)
    \/ GifEnd
    \/ \E id \in FrameIds : VideoFrame(id)
    \/ VideoEnd
    \/ \E id \in FrameIds : ImagesFile(id)
    \/ ImagesCollected
    \/ \E c \in vec : ReconstructVisit(c)

Spec == Init /\ [][Next]_vars

(***************************************************************************)
(* The transport over a channel that presents only frames of this encode:  *)
(* any of them, in any order, any number of times                          *)
(***************************************************************************)
OwnFrameIds == { FrameId("A", i) : i \in 1..Len(out_chunks) }

NextOwn ==
    \/ \E f \in SenderFiles, c \in Configs : Encode(f, c)
    \/ SizingStep
    \/ \E kind \in {"gif", "video", "images"}, g \in Files : StartDecode(kind, g)
    \/ \E id \in OwnFrameIds : GifFrame(id)
    \/ GifEnd
    \/ \E id \in OwnFrameIds : VideoFrame(id)
    \/ VideoEnd
    \/ \E id \in OwnFrameIds : ImagesFile(id)
    \/ ImagesCollected
    \/ \E c \in vec : ReconstructVisit(c)

SpecOwn == Init /\ [][NextOwn]_vars

(***************************************************************************)
(* The transport over a channel that presents frames of this encode and    *)
(* frames that carry no packet of version 1: unreadable frames, frames     *)
(* without a QR code, text that is no base-64, cut packets, packets of     *)
(* version 2                                                               *)
(***************************************************************************)
NoisyFrameIds == OwnFrameIds \cup { FrameId("J", j) : j \in JunkKinds }

NextNoisy ==
    \/ \E f \in SenderFiles, c \in Configs : Encode(f, c)
    \/ SizingStep
    \/ \E kind \in {"gif", "video", "images"}, g \in Files : StartDecode(kind, g)
    \/ \E id \in NoisyFrameIds : GifFrame(id)
    \/ GifEnd
    \/ \E id \in NoisyFrameIds : VideoFrame(id)
    \/ VideoEnd
    \/ \E id \in NoisyFrameIds : ImagesFile(id)
    \/ ImagesCollected
    \/ \E c \in vec : ReconstructVisit(c)

SpecNoisy == Init /\ [][NextNoisy]_vars

(***************************************************************************)
(* The transport of the empty file over a channel that presents frames of  *)
(* this encode and frames of an independent encode                         *)
(***************************************************************************)
MixedFrameIds ==
    OwnFrameIds \cup { FrameId("B", j) : j \in 1..Min(Len(foreign), MaxForeignEsi) }

NextMixed ==
    \/ \E c \in Configs : Encode(File(<<>>, <<97>>), c)
    \/ SizingStep
    \/ \E kind \in {"gif", "video", "images"}, g \in Files : StartDecode(kind, g)
    \/ \E id \in MixedFrameIds : GifFrame(id)
    \/ GifEnd
    \/ \E id \in MixedFrameIds : VideoFrame(id)
    \/ VideoEnd
    \/ \E id \in MixedFrameIds : ImagesFile(id)
    \/ ImagesCollected
    \/ \E c \in vec : ReconstructVisit(c)

SpecMixed == Init /\ [][NextMixed]_vars

(***************************************************************************)
(* The header codec on its own: a chunk is serialised, the bytes may be    *)
(* cut short and their first byte overwritten, and the result is parsed    *)
(***************************************************************************)
\* u32 values up to 2^31 - 1 (TLC evaluates with signed 32-bit integers)
TestTotals == {0, 1, 256, 2147483647}
TestIndexes == {0, 255, 65536, 16777217}
TestSizes == {0, 4, 258, 65535}
TestVersions == {0, 1, 2, 255}

RECURSIVE Bodies(_)
Bodies(n) == IF n = 0 THEN {<<>>} ELSE Bodies(n - 1) \cup { <<7>> \o b : b \in Bodies(n - 1) }

TestChunks ==
    { Chunk(ChunkHeader(1, t, i, ps), b) :
        t \in TestTotals, i \in TestIndexes, ps \in TestSizes, b \in Bodies(MaxBodyLen) }

InitHeader ==
    /\ Idle
    /\ FramingOff
    /\ hpc = "chunk" /\ hsrc \in TestChunks /\ hin = <<>> /\ hres = None

HdrSerialize ==
    /\ hpc = "chunk"
    /\ hin' = to_bytes(hsrc)
    /\ hpc' = "wire"
    /\ UNCHANGED <<hsrc, hres, senderVars, channelVars, receiverVars, historyVars,
                   framingVars>>

HdrCut(n) ==
    /\ hpc = "wire"
    /\ n < Len(hin)
    /\ hin' = SubSeq(hin, 1, n)
    /\ hpc' = "cut"
    /\ UNCHANGED <<hsrc, hres, senderVars, channelVars, receiverVars, historyVars,
                   framingVars>>

HdrSetVersion(v) ==
    /\ hpc \in {"wire", "cut"}
    /\ Len(hin) >= 1 /\ hin[1] # v
    /\ hin' = [hin EXCEPT ![1] = v]
    /\ hpc' = "cut"
    /\ UNCHANGED <<hsrc, hres, senderVars, channelVars, receiverVars, historyVars,
                   framingVars>>

HdrParse ==
    /\ hpc \in {"wire", "cut"}
    /\ hres' = from_bytes(hin)
    /\ hpc' = "parsed"
    /\ UNCHANGED <<hsrc, hin, senderVars, channelVars, receiverVars, historyVars,
                   framingVars>>

NextHeader ==
    \/ HdrSerialize
    \/ \E n \in 0..(HEADER_SIZE + MaxBodyLen) : HdrCut(n)
    \/ \E v \in TestVersions : HdrSetVersion(v)
    \/ HdrParse

SpecHeader == InitHeader /\ [][NextHeader]_vars

(***************************************************************************)
(* Properties                                                              *)
(***************************************************************************)
\* the packets of this encode, by position in out_chunks
OwnPackets == 1..Len(out_chunks)

\* k: the number of source symbols of this encode
SourcePackets ==
    SourceSymbols(Len(compressed), out_chunks[1].header.packet_size)

\* the file the receiver has to produce: the content under the sanitised name
Expected == [name |-> RemoveNul(file.name), data |-> file.data]

Succeeded ==
    /\ rpc = "done"
    /\ result.ok
    /\ result.val.original_filename = Expected.name
    /\ output = Some(Expected)

\* C1: a receiver that has read every packet of a successful encode, and nothing
\* else, has returned, has succeeded, and has written exactly the input content
\* under the sanitised name; the batch receiver, which reads first and decodes
\* afterwards, does so once it has returned.
C1_RoundTripNoLoss ==
    (spc = "ok" /\ rcv # "none" /\ delivered = OwnPackets)
        => /\ rcv \in {"gif", "video"} => Succeeded
           /\ rpc = "done" => Succeeded

C1_Witness ==
    /\ spc = "ok" /\ SourcePackets = 2
    /\ file.data # <<>>
    /\ rcv = "images" /\ delivered = OwnPackets /\ num_chunks = Len(out_chunks)
    /\ Succeeded

\* C2: a receiver that has read at least k + 2 distinct packets of a successful
\* encode, whichever they are and in whatever order, and nothing else, has
\* succeeded with exactly the input content (a streaming receiver by then, the
\* batch receiver once it has returned), and no receiver ever writes anything but
\* the input content.
C2_RoundTripLossReorder ==
    (spc = "ok" /\ rcv # "none")
        => /\ Cardinality(delivered) >= SourcePackets + RQ_OVERHEAD
                => /\ rcv \in {"gif", "video"} => Succeeded
                   /\ rpc = "done" => Succeeded
           /\ output # None => output = Some(Expected)

\* k + 2 packets of 6, the first source packet lost, the last repair packet read
C2_Witness ==
    /\ spc = "ok" /\ SourcePackets = 2 /\ rcv = "gif"
    /\ Cardinality(delivered) = SourcePackets + RQ_OVERHEAD
    /\ 1 \notin delivered /\ Len(out_chunks) \in delivered
    /\ Succeeded

OwnChunks == { out_chunks[i] : i \in OwnPackets }

\* the ESIs of the packets passed to Decoder::decode so far
FedEsis == { c.header.index : c \in fed }

SameSession(a, b) ==
    a.header.total = b.header.total /\ a.header.packet_size = b.header.packet_size

\* C3: once a first packet has been accepted, no packet whose (T, packet_size)
\* differs from that packet's is passed to Decoder::decode.
C3_SessionPinning ==
    first_accepted # None => \A c \in fed : SameSession(c, first_accepted)

\* C4: when the first packet accepted is one of this encode and the packets mixed
\* in belong to an encode of another transfer length, none of those reaches the
\* decoder, none makes a streaming receiver skip a packet of this encode as a
\* duplicate, and a receiver that has read every packet of this encode and has
\* returned has written the file of this encode.
C4_ContaminationHarmless ==
    (spc = "ok" /\ first_accepted # None /\ first_accepted \in OwnChunks
        /\ foreign[1].header.total # Len(compressed))
        => /\ fed \subseteq OwnChunks
           /\ (rcv \in {"gif", "video"} /\ rpc = "scan")
                 => \A i \in delivered : out_chunks[i] \in Range(chunks)
           /\ (rpc = "done" /\ delivered = OwnPackets) => Succeeded

\* C5: Decoder::new is called at most once in a session, and the configuration of
\* the decoder is the (T, packet_size) of the first packet accepted.
C5_ConfigFromFirstAccepted ==
    /\ ninit <= 1
    /\ decoder_raptorq # None
          => /\ first_accepted # None
             /\ decoder_raptorq.T = first_accepted.header.total
             /\ decoder_raptorq.ps = first_accepted.header.packet_size

\* C6: Decoder::decode is called at most once per ESI, and the packet it is given
\* for an ESI is the first packet accepted with that ESI.
C6_DedupFirstObserved ==
    /\ nfed = Cardinality(FedEsis)
    /\ \A c \in fed : c = first_by_esi[c.header.index]

\* C7: with packets read more than once, the receiver still writes exactly the
\* input content, and from the moment the decoder exists the size of the dedup
\* set, which is the num_chunks reported on success, is the number of distinct
\* ESIs passed to the decoder.
C7_DedupSetSize ==
    /\ output # None => output = Some(Expected)
    /\ decoder_raptorq # None => Cardinality(DOMAIN chunks) = Cardinality(FedEsis)
    /\ (rpc = "done" /\ result.ok) => result.val.num_chunks = Cardinality(FedEsis)

\* the receiver state that a rejected packet must leave alone
sessionVars == <<decoder_raptorq, chunks, fed, nfed, ninit, first_accepted, first_by_esi>>

RECURSIVE Strings(_, _)
Strings(b, n) ==
    IF n = 0 THEN {<<>>}
    ELSE Strings(b, n - 1) \cup { <<x>> \o t : x \in b, t \in { u \in Strings(b, n - 1) : Len(u) = n - 1 } }

\* contents with 0x00 bytes and bytes above 127, the empty content among them
FramingData == Strings({0, 65, 200}, MaxDataLen)

\* names: empty, plain, with 0x00 bytes, only 0x00 bytes
FramingNames == { <<>>, <<97>>, <<0>>, <<97, 0, 98>>, <<0, 97, 0>> }

FramingArgs(data, filename, payload_size) ==
    [data |-> data, filename |-> filename, payload_size |-> payload_size]

Pack ==
    /\ fpc = "args"
    /\ fmid' = pack_data(fargs.data, fargs.filename)
    /\ fpc' = "packed"
    /\ UNCHANGED <<fargs, fres, senderVars, channelVars, receiverVars, historyVars, headerVars>>

\* the first byte of the content region of the blob fmid (1-based), past the end
\* of the blob when the content is empty
ContentStart == 8 + Len(RemoveNul(fargs.filename)) + 2

\* byte i of the content region is replaced by another value
TamperContent(i, b) ==
    /\ fpc \in {"packed", "packed_tampered"}
    /\ i >= ContentStart /\ i <= Len(fmid)
    /\ fmid[i] # b
    /\ fmid' = [fmid EXCEPT ![i] = b]
    /\ fpc' = "packed_tampered"
    /\ UNCHANGED <<fargs, fres, senderVars, channelVars, receiverVars, historyVars, headerVars>>

Unpack ==
    /\ fpc \in {"packed", "packed_tampered"}
    /\ fres' = unpack_data(fmid)
    /\ fpc' = IF fpc = "packed" THEN "unpacked" ELSE "unpacked_tampered"
    /\ UNCHANGED <<fargs, fmid, senderVars, channelVars, receiverVars, historyVars, headerVars>>

(***************************************************************************)
(* Chunk lists (chunk.rs): split_into_chunks_with_size and merge_chunks,   *)
(* with the header of that file: filename, total, index, checksum          *)
(***************************************************************************)
\* usize::MAX, scaled to the largest integer TLC evaluates
USIZE_MAX == 2147483647

JsonChunkHeader(filename, total, index, checksum) ==
    [filename |-> filename, total |-> total, index |-> index, checksum |-> checksum]

\* slice::chunks(n): consecutive pieces of n elements, the last one shorter
RECURSIVE SliceChunks(_, _)
SliceChunks(s, n) ==
    IF Len(s) = 0 THEN <<>>
    ELSE IF Len(s) <= n THEN <<s>>
    ELSE <<SubSeq(s, 1, n)>> \o SliceChunks(Drop(s, n), n)

\* the chunks split_into_chunks_with_size builds once total_chunks is known
split_chunks(data, filename, payload_size, total_chunks) ==
    LET pieces == SliceChunks(compress(data), payload_size)
        checksum == calculate_checksum(data)
    IN IF Len(pieces) = 0
       THEN << Chunk(JsonChunkHeader(filename, 1, 0, checksum), <<>>) >>
       ELSE [i \in 1..Len(pieces) |->
               Chunk(JsonChunkHeader(filename, total_chunks, i - 1, checksum), pieces[i])]

\* what a call can do: return Ok(chunks), or panic.  compressed.len() +
\* payload_size - 1 is usize arithmetic: past usize::MAX it panics in a build with
\* overflow checks and wraps in a build without; chunks(0) always panics
split_into_chunks_with_size(data, filename, payload_size) ==
    LET len == Len(compress(data)) IN
    IF payload_size = 0 THEN { Err("Panic") }
    ELSE IF payload_size > USIZE_MAX - len
    THEN LET sum == payload_size - (USIZE_MAX - len) - 1
             wrapped == IF sum = 0 THEN USIZE_MAX ELSE sum - 1
         IN { Err("Panic"),
              Ok(split_chunks(data, filename, payload_size,
                              Max(wrapped \div payload_size, 1))) }
    ELSE { Ok(split_chunks(data, filename, payload_size,
                           Max((len + payload_size - 1) \div payload_size, 1))) }

\* sort_by_key(|c| c.header.index): a stable sort
RECURSIVE InsertByIndex(_, _)
InsertByIndex(sorted, c) ==
    IF Len(sorted) = 0 THEN <<c>>
    ELSE IF c.header.index < sorted[1].header.index THEN <<c>> \o sorted
    ELSE <<sorted[1]>> \o InsertByIndex(Tail(sorted), c)

RECURSIVE SortByIndex(_)
SortByIndex(cs) ==
    IF Len(cs) = 0 THEN <<>>
    ELSE InsertByIndex(SortByIndex(SubSeq(cs, 1, Len(cs) - 1)), cs[Len(cs)])

RECURSIVE ConcatData(_)
ConcatData(cs) == IF Len(cs) = 0 THEN <<>> ELSE cs[1].data \o ConcatData(Tail(cs))

\* the mutant does not compare the sorted indices with 0, 1, ...
merge_chunks_NoIndexCheck(cs) ==
    IF Len(cs) = 0 THEN Err("NoChunks")
    ELSE LET sorted == SortByIndex(cs) IN
         IF Len(sorted) # sorted[1].header.total THEN Err("MissingChunks")
         ELSE LET data == decompress(ConcatData(sorted)) IN
              IF ~data.ok THEN Err(data.err)
              ELSE IF calculate_checksum(data.val) # sorted[1].header.checksum
                   THEN Err("ChecksumMismatch")
              ELSE Ok([name |-> sorted[1].header.filename, data |-> data.val])

\* the mutant returns the data without comparing checksums
merge_chunks_NoChecksum(cs) ==
    IF Len(cs) = 0 THEN Err("NoChunks")
    ELSE LET sorted == SortByIndex(cs) IN
         IF Len(sorted) # sorted[1].header.total THEN Err("MissingChunks")
         ELSE IF \E i \in 1..Len(sorted) : sorted[i].header.index # i - 1
              THEN Err("MissingChunkAtIndex")
         ELSE LET data == decompress(ConcatData(sorted)) IN
              IF ~data.ok THEN Err(data.err)
              ELSE Ok([name |-> sorted[1].header.filename, data |-> data.val])

merge_chunks(cs) ==
    IF Len(cs) = 0 THEN Err("NoChunks")
    ELSE LET sorted == SortByIndex(cs) IN
         IF Len(sorted) # sorted[1].header.total THEN Err("MissingChunks")
         ELSE IF \E i \in 1..Len(sorted) : sorted[i].header.index # i - 1
              THEN Err("MissingChunkAtIndex")
         ELSE LET data == decompress(ConcatData(sorted)) IN
              IF ~data.ok THEN Err(data.err)
              ELSE IF calculate_checksum(data.val) # sorted[1].header.checksum
                   THEN Err("ChecksumMismatch")
              ELSE Ok([name |-> sorted[1].header.filename, data |-> data.val])

\* payload sizes: several chunks, one chunk, and sizes at the end of the usize range
PayloadSizes == {1, 2, 3, USIZE_MAX - 2, USIZE_MAX}

\* the bytes a changed byte may become
TamperBytes == {0, 64, 65, 200}

InitFraming ==
    /\ Idle
    /\ hpc = "off" /\ hsrc = None /\ hin = <<>> /\ hres = None
    /\ fpc = "args" /\ fmid = <<>> /\ fres = None
    /\ fargs \in { FramingArgs(d, n, ps) :
                     d \in FramingData, n \in FramingNames, ps \in PayloadSizes }

Split ==
    /\ fpc = "args"
    /\ \E r \in split_into_chunks_with_size(fargs.data, fargs.filename, fargs.payload_size) :
          IF r.ok THEN fmid' = r.val /\ fpc' = "split" /\ fres' = fres
          ELSE fmid' = fmid /\ fpc' = "panicked" /\ fres' = r
    /\ UNCHANGED <<fargs, senderVars, channelVars, receiverVars, historyVars, headerVars>>

\* the caller passes the chunks in another order: chunks i and i + 1 change places
Reorder(i) ==
    /\ fpc \in {"split", "split_tampered", "split_partial", "split_declared"}
    /\ i >= 1 /\ i < Len(fmid)
    /\ fmid' = [fmid EXCEPT ![i] = fmid[i + 1], ![i + 1] = fmid[i]]
    /\ UNCHANGED <<fpc, fargs, fres, senderVars, channelVars, receiverVars, historyVars,
                   headerVars>>

\* the checksum carried in the headers becomes that of another content d
TamperChecksum(d) ==
    /\ fpc = "split"
    /\ calculate_checksum(d) # calculate_checksum(fargs.data)
    /\ fmid' = [i \in 1..Len(fmid) |->
                  [fmid[i] EXCEPT !.header.checksum = calculate_checksum(d)]]
    /\ fpc' = "split_tampered"
    /\ UNCHANGED <<fargs, fres, senderVars, channelVars, receiverVars, historyVars, headerVars>>

Merge ==
    /\ fpc \in {"split", "split_tampered", "split_partial", "split_declared"}
    /\ fres' = merge_chunks(fmid)
    /\ fpc' = CASE fpc = "split" -> "merged"
                [] fpc = "split_tampered" -> "merged_tampered"
                [] OTHER -> "merged_partial"
    /\ UNCHANGED <<fargs, fmid, senderVars, channelVars, receiverVars, historyVars, headerVars>>

NextFraming ==
    \/ Pack
    \/ \E i \in 1..(8 + 3 + 1 + MaxDataLen), b \in TamperBytes : TamperContent(i, b)
    \/ Unpack
    \/ Split
    \/ \E i \in 1..(MaxDataLen + 2) : Reorder(i)
    \/ \E d \in {<<>>, <<65>>, <<65, 0>>} : TamperChecksum(d)
    \/ Merge

SpecFraming == InitFraming /\ [][NextFraming]_vars

(***************************************************************************)
(* merge_chunks on the lists a caller can pass: the chunks of a split in   *)
(* any order, some of them left out, some of them passed more than once,   *)
(* and a header that declares another total                                *)
(***************************************************************************)
\* payload sizes that give several chunks, two chunks, one chunk
InitMerge ==
    /\ Idle
    /\ hpc = "off" /\ hsrc = None /\ hin = <<>> /\ hres = None
    /\ fpc = "args" /\ fmid = <<>> /\ fres = None
    /\ fargs \in { FramingArgs(d, <<97>>, ps) :
                     d \in Strings({65}, MaxDataLen), ps \in {1, 2, USIZE_MAX} }

\* the caller leaves chunk i out of the list
DropChunk(i) ==
    /\ fpc \in {"split", "split_partial"}
    /\ i >= 1 /\ i <= Len(fmid)
    /\ fmid' = SubSeq(fmid, 1, i - 1) \o Drop(fmid, i)
    /\ fpc' = "split_partial"
    /\ UNCHANGED <<fargs, fres, senderVars, channelVars, receiverVars, historyVars, headerVars>>

\* the caller passes chunk i once more; the list grows no longer than the split
DuplicateChunk(i) ==
    /\ fpc \in {"split", "split_partial"}
    /\ i >= 1 /\ i <= Len(fmid)
    /\ Len(fmid) < Len(compress(fargs.data))
    /\ fmid' = fmid \o <<fmid[i]>>
    /\ fpc' = "split_partial"
    /\ UNCHANGED <<fargs, fres, senderVars, channelVars, receiverVars, historyVars, headerVars>>

\* the header of chunk i declares the number of chunks passed as its total; the
\* list keeps its members from then on
DeclareTotal(i) ==
    /\ fpc \in {"split_partial", "split_declared"}
    /\ i >= 1 /\ i <= Len(fmid)
    /\ fmid[i].header.total # Len(fmid)
    /\ fmid' = [fmid EXCEPT ![i].header.total = Len(fmid)]
    /\ fpc' = "split_declared"
    /\ UNCHANGED <<fargs, fres, senderVars, channelVars, receiverVars, historyVars, headerVars>>

NextMerge ==
    \/ Split
    \/ \E i \in 1..(MaxDataLen + 2) : Reorder(i)
    \/ \E i \in 1..(MaxDataLen + 2) : DropChunk(i)
    \/ \E i \in 1..(MaxDataLen + 2) : DuplicateChunk(i)
    \/ \E i \in 1..(MaxDataLen + 2) : DeclareTotal(i)
    \/ Merge

SpecMerge == InitMerge /\ [][NextMerge]_vars

\* the checksum of the model separates the contents the model draws, as the first
\* 8 bytes of SHA-256 do in practice
ChecksumSeparates ==
    \A d1, d2 \in Strings({0, 64, 65, 200}, MaxDataLen) :
        d1 # d2 => calculate_checksum(d1) # calculate_checksum(d2)

\* what unpack_data and merge_chunks have to return for the arguments drawn
FramedExpected == Ok([name |-> RemoveNul(fargs.filename), data |-> fargs.data])
MergedExpected == Ok([name |-> fargs.filename, data |-> fargs.data])

\* C11: for every content (empty, or with 0x00 bytes) and every name, unpacking
\* the packed blob returns the content under the name without its 0x00 bytes.
C11_FramingRoundTrip ==
    fpc = "unpacked" => fres = FramedExpected

\* the round trip of every blob of at least 10 bytes: the content or the name
\* without its 0x00 bytes is not empty
FramingRoundTripNonEmpty ==
    (fpc = "unpacked" /\ (fargs.data # <<>> \/ RemoveNul(fargs.filename) # <<>>))
        => fres = FramedExpected

\* C12: for every data, filename and payload_size >= 1, the split returns chunks
\* and merging them, passed in any order, returns the filename and the data.
C12_SplitMergeRoundTrip ==
    /\ fpc = "panicked" => fargs.payload_size < 1
    /\ fpc = "merged" => fres = MergedExpected

\* the round trip of every payload_size for which compressed.len() + payload_size
\* does not exceed usize::MAX
SplitMergeRoundTripInRange ==
    (fargs # None /\ fargs.payload_size <= USIZE_MAX - Len(compress(fargs.data)))
        => /\ fpc # "panicked"
           /\ fpc = "merged" => fres = MergedExpected

\* C13: unpacking a blob whose content region was changed fails ChecksumMismatch
\* and returns no name and content; merge_chunks fails the same way when the
\* checksum of the decompressed data is not the one carried in the header.
C13_ChecksumSensitivity ==
    /\ (fpc = "unpacked_tampered" /\ fmid # pack_data(fargs.data, fargs.filename))
          => (~fres.ok /\ fres.err = "ChecksumMismatch" /\ fres.val = None)
    /\ fpc = "merged_tampered"
          => (~fres.ok /\ fres.err = "ChecksumMismatch" /\ fres.val = None)

\* either failure: a changed content byte under a name, or the reordered chunks
\* of a split whose headers carry another checksum
C13_Witness ==
    \/ /\ fpc = "unpacked_tampered" /\ fres.err = "ChecksumMismatch"
       /\ fargs.filename = <<97, 0, 98>> /\ Len(fargs.data) = MaxDataLen
       /\ fmid[Len(fmid)] = 64
    \/ /\ fpc = "merged_tampered" /\ fres.err = "ChecksumMismatch"
       /\ Len(fmid) >= 2 /\ fmid[1].header.index = 1

(***************************************************************************)
(* The sizing loop on its own: prepare_chunks for every file of the model  *)
(* under a grid of small configurations and the configurations of the      *)
(* callers and of the scenarios of section 7                               *)
(***************************************************************************)
\* the largest requested size of the grid
MaxChunkSize == 24

GridConfigs ==
    { Config(cs, 21, ms, st, rn, 2, fl) :
        cs \in {None} \cup { Some(n) : n \in 10..MaxChunkSize },
        ms \in {0, 13, 15, 19},
        st \in {0, 6},
        rn \in {3, 4},
        fl \in {20, 28, 36} }

\* requested sizes whose current - HEADER_SIZE does not fit in 16 bits: the cast
\* leaves 2 for the first and 20 for the second
WrapConfigs ==
    { Config(Some(65536 + HEADER_SIZE + 2), 21, 65536 + HEADER_SIZE + 2, 6, 3, 2, 36),
      Config(Some(65536 + HEADER_SIZE + 20), 21, 13, 6, 3, 2, 48) }

\* prepare_chunks_for_img with the default size and with 1400 and 2000 requested:
\* its predicate is whether the QR code can be built; the same parameters over
\* channels that carry 120 or 30 bytes of text (scenarios S3 and S4);
\* encode_file_for_terminal with the default size and with 2000 requested, in
\* terminals that show the codes of texts of 100 or 160 bytes
CallerConfigs ==
    { Config(None, 1400, 100, 50, 3, 2, QR_CAPACITY),
      Config(Some(1400), 1400, 100, 50, 3, 2, QR_CAPACITY),
      Config(Some(2000), 1400, 100, 50, 3, 2, QR_CAPACITY),
      Config(Some(1400), 1400, 100, 50, 3, 2, 120),
      Config(Some(1400), 1400, 100, 50, 3, 2, 30),
      TerminalConfig(Config(None, 100, 50, 20, 2, 1, 100)),
      TerminalConfig(Config(None, 100, 50, 20, 2, 1, 160)),
      TerminalConfig(Config(Some(2000), 100, 50, 20, 2, 1, 160)) }

SizingConfigs == GridConfigs \cup WrapConfigs \cup CallerConfigs

NextSizing ==
    \/ \E f \in Files, c \in SizingConfigs : Encode(f, c)
    \/ SizingStep

SpecSizing == Init /\ [][NextSizing]_vars

(***************************************************************************)
(* The sender up to the rendered container: prepare_chunks, then the loop  *)
(* of process_chunks_as_qr_images                                          *)
(***************************************************************************)
NextRender ==
    \/ \E f \in SenderFiles, c \in Configs \cup GridConfigs : Encode(f, c)
    \/ SizingStep
    \/ RenderStep
    \/ RenderEnd

SpecRender == Init /\ [][NextRender]_vars

\* the packet size the encoder of a successful encode was built with
EncoderPacketSize == packet_size_of(current_size)

\* C14: for every configuration for which prepare_chunks returns packets, the
\* packet_size the encoder used, which every header carries and every symbol has
\* as its length, is even and at least 4.
C14_PacketSizeEven ==
    spc = "ok" =>
        /\ EncoderPacketSize % 2 = 0
        /\ EncoderPacketSize >= 4
        /\ \A i \in 1..Len(out_chunks) :
              /\ out_chunks[i].header.packet_size = EncoderPacketSize
              /\ Len(out_chunks[i].data) = 4 + EncoderPacketSize

\* a retreat from 24 to 18, where current - HEADER_SIZE = 7 is odd and 6 is used;
\* or a requested size beyond 16 bits that the cast takes to 20
C14_Witness ==
    /\ spc = "ok" /\ Len(out_chunks) > 0
    /\ \/ cfg.chunk_size = Some(24) /\ current_size = 18
             /\ out_chunks[1].header.packet_size = 6
       \/ current_size = 65536 + HEADER_SIZE + 20
             /\ out_chunks[1].header.packet_size = 20

\* k and N of a successful encode
SentK == CeilDiv(Len(compressed), EncoderPacketSize)
SentN == Max(SentK + 2, CeilDiv(SentK * cfg.red_num, cfg.red_den))

\* C15: on success the returned chunk list has exactly N = max(k + 2,
\* ceil(k * redundancy)) packets, k = ceil(|C| / packet_size).
C15_PacketCount ==
    spc = "ok" => Len(out_chunks) = SentN

\* what the code returns: the k source packets and N repair packets
PacketCountSourcePlusRepair ==
    spc = "ok" => Len(out_chunks) = SentK + SentN

\* C16: every packet of a successful encode carries version 1, T = |C|, the
\* length of the compressed packed blob of the file, and the packet_size the
\* encoder was built with.
C16_HeaderUniformity ==
    spc = "ok" =>
        /\ compressed = compress(pack_data(file.data, file.name))
        /\ \A i \in 1..Len(out_chunks) :
              /\ out_chunks[i].header.version = 1
              /\ out_chunks[i].header.total = Len(compressed)
              /\ out_chunks[i].header.packet_size = EncoderPacketSize
              /\ Len(out_chunks[i].data) = 4 + EncoderPacketSize

\* an encode of several source packets and repair packets, T not their number
C16_Witness ==
    /\ spc = "ok" /\ SentK >= 2 /\ Len(out_chunks) > SentK
    /\ Len(compressed) # Len(out_chunks)
    /\ out_chunks[Len(out_chunks)].header.total = Len(compressed)

\* C17: the i-th packet emitted (from 0) carries header ESI i, the header ESIs are
\* pairwise distinct, and the body of a packet holds the erasure symbol of its
\* header ESI under the same ESI.
C17_EmissionOrder ==
    spc = "ok" =>
        /\ \A i \in 1..Len(out_chunks) :
              /\ out_chunks[i].header.index = i - 1
              /\ Len(out_chunks[i].data) >= 4
              /\ deserialize(out_chunks[i].data) =
                    EncodingPacket(i - 1, Symbol(compressed, EncoderPacketSize, i - 1))
        /\ \A i, j \in 1..Len(out_chunks) :
              out_chunks[i].header.index = out_chunks[j].header.index => i = j

\* source packets followed by repair packets
C17_Witness ==
    /\ spc = "ok" /\ SentK >= 2 /\ Len(out_chunks) >= SentK + 2
    /\ out_chunks[SentK + 2].header.index = SentK + 1
    /\ deserialize(out_chunks[SentK + 2].data).esi = SentK + 1

\* scenario S3: 1400 requested over a channel that carries texts of 120 bytes
S3Config == Config(Some(1400), 1400, 100, 50, 3, 2, 120)
\* scenario S4: the same over a channel that carries texts of 30 bytes
S4Config == Config(Some(1400), 1400, 100, 50, 3, 2, 30)

\* C18: with texts of at most 120 bytes accepted, 1400 requested, min_size 100
\* and reduction_step 50, the loop ends in success with current <= 120 and
\* packets whose envelope text the channel accepts.
C18_SizingRetreat ==
    (cfg = S3Config /\ spc # "loop") =>
        /\ spc = "ok"
        /\ current_size <= 120
        /\ \A i \in 1..Len(out_chunks) :
              fit_check_fn(cfg, envelope(out_chunks[i])) = Ok(TRUE)

\* what the code does in scenario S3: it retreats to min_size, where the text of
\* the probe has 140 bytes, and fails
S3FailsAtMinSize ==
    (cfg = S3Config /\ spc # "loop") =>
        /\ spc = "err" /\ break_at = "fit" /\ current_size = 100
        /\ send_err = Some(SizingError) /\ out_chunks = <<>>

\* the text of the probe of the iteration at a size
ProbeText(current) ==
    LET ps == packet_size_of(current)
    IN envelope(Chunk(ChunkHeader(1, Len(compressed), 0, ps),
                      serialize(get_encoded_packets(compressed, ps, 1)[1])))

\* C19: when the probe is rejected at min_size (and so was at every size tried
\* before), prepare_chunks fails with the sizing error and returns no packets;
\* a failed encode holds no packet list.
C19_SizingFailure ==
    /\ [][ (/\ spc = "loop" /\ current_size <= cfg.min_size
            /\ packet_size_of(current_size) >= 4
            /\ fit_check_fn(cfg, ProbeText(current_size)) = Ok(FALSE))
           => (spc' = "err" /\ send_err' = Some(SizingError) /\ out_chunks' = <<>>) ]_vars
    /\ [](spc = "err" => out_chunks = <<>>)
    /\ []((spc = "err" /\ break_at = "fit") => send_err = Some(SizingError))

\* scenario S4: every size from 1400 down to 100 was tried and rejected
C19_Witness ==
    /\ cfg = S4Config /\ spc = "err" /\ break_at = "fit" /\ current_size = 100
    /\ send_err = Some(SizingError) /\ out_chunks = <<>>

\* C20: the failure on a packet_size < 4 at current <= min_size is an error other
\* than the one returned when the probe does not fit at min_size.
C20_TooSmallDistinct ==
    (spc = "err" /\ break_at = "packet_size") => send_err # Some(SizingError)

\* the error of a probe that does not fit at min_size
TooLargeIsSizingError ==
    (spc = "err" /\ break_at = "fit") => send_err = Some(SizingError)

\* C26 as stated: the loop ends for every combination of chunk_size, min_size,
\* reduction_step and fit predicate: no iteration leaves the loop where it was,
\* each one ends the loop or makes current smaller.
C26_SizingTerminates_AsStated ==
    spc = "loop" =>
        LET it == sizing_iteration(current_size, cfg, compressed)
        IN it.kind = "loop" => it.current < current_size

\* C26, amended: for every combination with reduction_step >= 1 (a chunk_size
\* below min_size included) the loop ends in a packet list or the sizing error:
\* every iteration ends the loop or makes current smaller and not below min_size,
\* so that current - min_size decreases from one iteration to the next.
C26_SizingTerminates ==
    (spc = "loop" /\ cfg.reduction_step >= 1) =>
        LET it == sizing_iteration(current_size, cfg, compressed)
        IN /\ it.kind \in {"loop", "ok", "err"}
           /\ it.kind = "loop" =>
                 (it.current < current_size /\ it.current >= cfg.min_size)

\* an encode that ended after a retreat, or one whose chunk_size is below min_size
C26_Witness ==
    /\ spc \in {"ok", "err"} /\ cfg.reduction_step >= 1 /\ cfg.chunk_size # None
    /\ \/ spc = "ok" /\ current_size < cfg.chunk_size.some
       \/ cfg.chunk_size.some < cfg.min_size

\* chunk_size.unwrap_or(default_size)
RequestedSize == IF cfg.chunk_size = None THEN cfg.default_size ELSE cfg.chunk_size.some

\* C27: in the loop current_size never increases and a reduced current_size is
\* not below min_size; the size returned on success is at most the requested
\* size, and at least min_size when the requested size was.
C27_SizeMonotone ==
    /\ [][ spc = "loop" =>
             /\ current_size' <= current_size
             /\ current_size' < current_size => current_size' >= cfg.min_size ]_vars
    /\ [](spc = "ok" =>
             /\ current_size <= RequestedSize
             /\ RequestedSize >= cfg.min_size => current_size >= cfg.min_size)

\* a success at min_size after a retreat that the floor cut short (20 - 6 < 15)
C27_Witness ==
    /\ spc = "ok" /\ cfg.chunk_size = Some(20) /\ cfg.min_size = 15
    /\ cfg.reduction_step = 6 /\ current_size = 15

\* even_floor(current - HEADER_SIZE), 0 when current < HEADER_SIZE
EvenFloorSize(current) ==
    LET d == IF current > HEADER_SIZE THEN current - HEADER_SIZE ELSE 0
    IN d - (d % 2)

\* C28: the packet_size of every iteration is even_floor(current - HEADER_SIZE),
\* also where current - HEADER_SIZE exceeds 65535.
C28_PacketSizeFormula ==
    spc \in {"loop", "ok", "err"} => packet_size_of(current_size) = EvenFloorSize(current_size)

\* what the code computes: the formula for every current - HEADER_SIZE of 16 bits
PacketSizeFormulaInRange ==
    (spc \in {"loop", "ok", "err"} /\ current_size - HEADER_SIZE <= 65535)
        => packet_size_of(current_size) = EvenFloorSize(current_size)

\* C29: whenever the probe text does not fit, a text no QR code can be built for
\* included, and current > min_size, the loop goes on with current reduced by
\* reduction_step (and not below min_size), for every channel.
C29_RetreatNotFail ==
    [][ (/\ spc = "loop" /\ packet_size_of(current_size) >= 4
         /\ current_size > cfg.min_size
         /\ fit_check_fn(cfg, ProbeText(current_size)) # Ok(TRUE))
        => (spc' = "loop" /\ current_size' = reduce(current_size, cfg)) ]_vars

\* what the code does: it retreats when the predicate returns Ok(false)
RetreatOnRejectedProbe ==
    [][ (/\ spc = "loop" /\ packet_size_of(current_size) >= 4
         /\ current_size > cfg.min_size
         /\ fit_check_fn(cfg, ProbeText(current_size)) = Ok(FALSE))
        => (spc' = "loop" /\ current_size' = reduce(current_size, cfg)) ]_vars

\* and fails at once with the error of a predicate that returned Err
FitErrorAborts ==
    (spc = "err" /\ break_at = "fit_error") =>
        /\ send_err = Some(Err("QrError")) /\ out_chunks = <<>>

\* C30: the envelope text of every packet of a successful encode is at most
\* current bytes long, current the effective size the loop returned.
C30_ChunkSizeBoundsText ==
    spc = "ok" => \A i \in 1..Len(out_chunks) : Len(envelope(out_chunks[i])) <= current_size

\* what the code keeps: current bounds the header and the symbol; the text is
\* the base-64 of header, payload id and symbol
TextLengthOfSize ==
    spc = "ok" =>
        /\ HEADER_SIZE + EncoderPacketSize <= current_size
        /\ \A i \in 1..Len(out_chunks) :
              Len(envelope(out_chunks[i])) = 4 * CeilDiv(HEADER_SIZE + 4 + EncoderPacketSize, 3)

\* C21: every receiver passes each accepted packet to the decoder as it reads
\* it: while it reads, and before it returns, it holds no accepted packet that
\* the decoder has not been given; none reads every image before the first call
\* of decode.
C21_EarlyExitSinglePass ==
    rpc \in {"scan", "reconstruct"} => Range(chunks) \subseteq fed

\* what the code does: the receivers of a GIF and of a video feed as they read
StreamingFeedsAsRead ==
    rcv \in {"gif", "video"} => Range(chunks) \subseteq fed

\* and decode_from_images has read every file before the first call of decode
ImagesFeedAfterReading ==
    (rcv = "images" /\ rpc = "scan") => nfed = 0

\* C22: no session is ended by the failure of a single item: a frame that cannot
\* be obtained or decoded, a frame without a QR code, a text that is no base-64,
\* a header that does not parse.
C22_PerItemRecoverable ==
    rpc = "done" => (result.ok \/ result.err # "FrameError")

\* what the code does: only the receiver of a GIF ends on a frame it cannot decode
FrameErrorOnlyInGif ==
    (rpc = "done" /\ ~result.ok /\ result.err = "FrameError") => rcv = "gif"

\* the errors of a stream that ended without a block
EndOfStreamErrors == {"InsufficientPackets", "NoValidPackets"}

\* C23: a receiver whose stream ended without a block fails and writes no file,
\* with NoValidPackets when no packet was ever accepted and with
\* InsufficientPackets when one was.
C23_EndOfStreamErrors ==
    (rpc = "done" /\ ~result.ok /\ result.err \in EndOfStreamErrors) =>
        /\ output = None
        /\ first_accepted = None => result.err = "NoValidPackets"
        /\ first_accepted # None => result.err = "InsufficientPackets"

\* what the code does: the receivers of a GIF and of a directory tell the two
\* apart, the receiver of a video has one error for both
EndOfStreamErrorsGifImages ==
    (rcv \in {"gif", "images"} /\ rpc = "done" /\ ~result.ok
        /\ result.err \in EndOfStreamErrors) =>
        /\ output = None
        /\ first_accepted = None => result.err = "NoValidPackets"
        /\ first_accepted # None => result.err = "InsufficientPackets"

\* C24: a block the decoder returned is truncated to the transfer length of the
\* first packet accepted.
C24_TruncationToT ==
    trunc_len # None => trunc_len = Some(first_accepted.header.total)

\* what the code does: the streaming receivers truncate to the total of the
\* packet that completed the decode, reconstruct_raptorq to that of the decoder
TruncationToCompleting ==
    trunc_len # None =>
        \/ rcv \in {"gif", "video"} /\ \E c \in fed : trunc_len = Some(c.header.total)
        \/ rcv = "images" /\ trunc_len = Some(decoder_raptorq.T)

\* the errors of a recovered block that does not decompress or unpack
FramingErrors ==
    {"CompressionError", "PackedTooShort", "MalformedName", "MissingNameTerminator",
     "ChecksumMismatch"}

PassedIndices == { fmid[i].header.index : i \in 1..Len(fmid) }

\* the chunks of the list that carry its lowest index
LowestIndexChunks ==
    { fmid[i] : i \in { j \in 1..Len(fmid) :
                          \A k \in 1..Len(fmid) : fmid[j].header.index <= fmid[k].header.index } }

MergeReturned == fpc \in {"merged", "merged_tampered", "merged_partial"}

\* C32: merge_chunks fails on an empty list, fails when the number of chunks is
\* not the total declared in the lowest-index chunk, and fails when the indices
\* are not exactly 0..total-1 (one missing or one passed twice), so it returns
\* data only for a list that carries every index from 0 to total-1 once.
C32_MergeComplete ==
    MergeReturned =>
        /\ Len(fmid) = 0 => (~fres.ok /\ fres.val = None)
        /\ (\E c \in LowestIndexChunks : Len(fmid) # c.header.total)
              => (~fres.ok /\ fres.val = None)
        /\ PassedIndices # 0..(Len(fmid) - 1) => (~fres.ok /\ fres.val = None)
        /\ fres.ok => /\ Len(fmid) >= 1
                      /\ \A c \in LowestIndexChunks : c.header.total = Len(fmid)
                      /\ PassedIndices = 0..(Len(fmid) - 1)

\* a list as long as its declared total in which one chunk stands in for another:
\* index 1 twice and index 2 missing, the two chunks carrying the same byte
C32_Witness ==
    /\ fpc = "merged_partial" /\ ~fres.ok /\ fres.err = "MissingChunkAtIndex"
    /\ Len(fmid) = 4 /\ PassedIndices = {0, 1, 3}
    /\ \A c \in LowestIndexChunks : c.header.total = 4
    /\ decompress(ConcatData(SortByIndex(fmid))).ok

\* the other two failures: the empty list, and a count that is not the total
MergeFailsEmptyAndShort ==
    MergeReturned =>
        /\ Len(fmid) = 0 => fres = Err("NoChunks")
        /\ (Len(fmid) > 0 /\ SortByIndex(fmid)[1].header.total # Len(fmid))
              => fres = Err("MissingChunks")

(***************************************************************************)
(* Claim about the QR version of the frames of a container                 *)
(***************************************************************************)
\* C31: the first packet is rendered with no version hint, the version it yields
\* is recorded once, every later packet is rendered with exactly that version as
\* the hint, all rendered frames have that version, and the recorded version
\* never changes after the first packet.
C31_VersionFixedByFirst ==
    /\ [](/\ qr_frames = <<>> => fixed_version = None
          /\ qr_frames # <<>> =>
                /\ qr_frames[1].hint = None
                /\ fixed_version = Some(qr_frames[1].version)
                /\ \A i \in 2..Len(qr_frames) :
                      /\ qr_frames[i].hint = Some(qr_frames[1].version)
                      /\ qr_frames[i].version = qr_frames[1].version)
    /\ [][fixed_version # None => fixed_version' = fixed_version]_vars

\* a container of several frames completed at a version that is neither the
\* smallest nor the largest the first text can get
C31_Witness ==
    /\ qr_res = Some(Ok(None)) /\ Len(qr_frames) >= 3 /\ Len(qr_frames) = Len(out_chunks)
    /\ fixed_version = Some(2) /\ qr_frames[Len(qr_frames)].version = 2
    /\ MinVersion(QR_NUMERIC_CAPACITY, Len(envelope(out_chunks[1]))) = 1
    /\ MinVersion(QR_BYTE_CAPACITY, Len(envelope(out_chunks[1]))) = 3

\* a later packet that needs a larger version than the recorded one ends the loop
\* with the error of generate_qr_image; the frames rendered before it stay
HintedRenderCanFail ==
    [][(fixed_version # None /\ qr_res = None /\ qr_res' = Some(Err("QrError")))
          => (qr_frames' = qr_frames /\ fixed_version' = fixed_version)]_vars

====
